---- MODULE Spec2Model ----
(***************************************************************************)
(* Axec: registry of AppImage bundles (src-tauri/src/lib.rs).              *)
(* The state is the filesystem the four commands work on; file names are   *)
(* sequences of one-character strings so that the identity deriver is      *)
(* computed character by character, as the code computes it.               *)
(***************************************************************************)
EXTENDS Integers, Sequences, FiniteSets, TLC

\* Option::None; a one-element sequence that is no file name
None == <<"None">>

(* ---------------------------------------------------------------- chars *)
UpperSeq == <<"A","B","C","D","E","F","G","H","I","J","K","L","M",
              "N","O","P","Q","R","S","T","U","V","W","X","Y","Z">>
LowerSeq == <<"a","b","c","d","e","f","g","h","i","j","k","l","m",
              "n","o","p","q","r","s","t","u","v","w","x","y","z">>
DigitSeq == <<"0","1","2","3","4","5","6","7","8","9">>

Range(s) == {s[i] : i \in DOMAIN s}

UpperChars == Range(UpperSeq)
AlphanumericChars == Range(UpperSeq) \cup Range(LowerSeq) \cup Range(DigitSeq)

\* char::is_ascii_alphanumeric
IsAsciiAlphanumeric(c) == c \in AlphanumericChars

\* char lower-casing (to_lowercase / to_ascii_lowercase on ASCII text)
ToLowerChar(c) ==
    IF c \in UpperChars
    THEN LowerSeq[CHOOSE i \in DOMAIN UpperSeq : UpperSeq[i] = c]
    ELSE c

ToLowercase(s) == [i \in 1..Len(s) |-> ToLowerChar(s[i])]

(* -------------------------------------------------------------- strings *)
RECURSIVE TrimStart(_, _)
TrimStart(s, c) ==
    IF s # <<>> /\ Head(s) = c THEN TrimStart(Tail(s), c) ELSE s

RECURSIVE TrimEnd(_, _)
TrimEnd(s, c) ==
    IF s # <<>> /\ s[Len(s)] = c THEN TrimEnd(SubSeq(s, 1, Len(s) - 1), c) ELSE s

\* str::trim_matches(c)
TrimMatches(s, c) == TrimEnd(TrimStart(s, c), c)

\* index of the first c in s, Len(s)+1 when there is none
FirstIndex(s, c) ==
    IF \E i \in 1..Len(s) : s[i] = c
    THEN CHOOSE i \in 1..Len(s) : s[i] = c /\ \A j \in 1..(i - 1) : s[j] # c
    ELSE Len(s) + 1

\* index of the last c in s, 0 when there is none
LastIndex(s, c) ==
    IF \E i \in 1..Len(s) : s[i] = c
    THEN CHOOSE i \in 1..Len(s) : s[i] = c /\ \A j \in (i + 1)..Len(s) : s[j] # c
    ELSE 0

\* str::split_whitespace: the non-empty words between runs of spaces
RECURSIVE SplitWhitespace(_)
SplitWhitespace(s) ==
    LET t == TrimStart(s, " ") IN
    IF t = <<>> THEN <<>>
    ELSE LET n == FirstIndex(t, " ") IN
         <<SubSeq(t, 1, n - 1)>> \o SplitWhitespace(SubSeq(t, n, Len(t)))

\* [String]::join(sep)
RECURSIVE Join(_, _)
Join(words, sep) ==
    IF words = <<>> THEN <<>>
    ELSE IF Len(words) = 1 THEN words[1]
    ELSE words[1] \o sep \o Join(Tail(words), sep)

(* ---------------------------------------------------------------- paths *)
\* Path::file_stem of a file name: the part before the last '.', the whole
\* name when there is no '.' or the only '.' is the first character, and
\* nothing for "..".
FileStem(f) ==
    IF f = <<".", ".">> THEN None
    ELSE LET d == LastIndex(f, ".") IN
         IF d <= 1 THEN f ELSE SubSeq(f, 1, d - 1)

\* Path::extension of a file name: the part after the last '.', nothing
\* when there is no '.' or the only '.' is the first character.
Extension(f) ==
    IF f = <<".", ".">> THEN None
    ELSE LET d == LastIndex(f, ".") IN
         IF d <= 1 THEN None ELSE SubSeq(f, d + 1, Len(f))

(* ----------------------------------------------------- identity deriver *)
SanitizeChar(c) == IF IsAsciiAlphanumeric(c) \/ c = "-" \/ c = "_" THEN c ELSE "-"

\* variant: the '-' are trimmed before the characters are replaced
sanitize_filename_trim_first(name) ==
    LET trimmed == TrimMatches(name, "-")
    IN  ToLowercase([i \in 1..Len(trimmed) |-> SanitizeChar(trimmed[i])])

sanitize_filename(name) ==
    LET filtered == [i \in 1..Len(name) |-> SanitizeChar(name[i])]
    IN  ToLowercase(TrimMatches(filtered, "-"))

\* variant: '-' and '_' are separators too
NameCharAlnumOnly(c) == IF IsAsciiAlphanumeric(c) THEN c ELSE " "

NameChar(c) ==
    IF IsAsciiAlphanumeric(c) \/ c = " " \/ c = "-" \/ c = "_" THEN c ELSE " "

parse_appimage_name(f) ==
    LET stem  == FileStem(f)
        fname == IF stem = None THEN <<"a","p","p","i","m","a","g","e">> ELSE stem
        base  == [i \in 1..Len(fname) |-> NameChar(fname[i])]
        coll  == Join(SplitWhitespace(base), <<" ">>)
    IN  TrimMatches(coll, " ")

(* ------------------------------------------------------- file naming *)
EXT_AppImage == <<"A","p","p","I","m","a","g","e">>
EXT_appimage == <<"a","p","p","i","m","a","g","e">>
EXT_png == <<"p","n","g">>
EXT_svg == <<"s","v","g">>
EXT_ico == <<"i","c","o">>
EXT_xpm == <<"x","p","m">>

\* the order remove_app and launch_app try the bundle extensions in
BundleExts == <<EXT_AppImage, EXT_appimage>>
\* the order list_apps and remove_app try the icon extensions in
\* variant: the svg extension is missing from the list
IconExtsNoSvg == <<EXT_png, EXT_ico, EXT_xpm>>
IconExts == <<EXT_png, EXT_svg, EXT_ico, EXT_xpm>>

\* format!("{id}.{ext}")
FileOf(id, ext) == id \o <<".">> \o ext
\* format!("axec-{id}.desktop")
DesktopOf(id) ==
    <<"a","x","e","c","-">> \o id \o <<".","d","e","s","k","t","o","p">>

\* the first element of the sequence s that satisfies membership in S
FindFirst(s, S) ==
    IF \E i \in 1..Len(s) : s[i] \in S
    THEN s[CHOOSE i \in 1..Len(s) : s[i] \in S /\ \A j \in 1..(i - 1) : s[j] \notin S]
    ELSE None

(* ------------------------------------------------------ error messages *)
ErrFile    == "File not found"
ErrApp     == "App not found"
ErrLaunch  == "AppImage not found"
ErrDataDir == "XDG data dir not found"
ErrHome    == "HOME not found"
\* io::Error::to_string() of an operating-system error
ErrIo      == "Permission denied (os error 13)"
Ok         == "Ok"

\* the modelled messages that contain the text "not found"
ContainsNotFound(msg) == msg \in {ErrFile, ErrApp, ErrLaunch, ErrDataDir, ErrHome}

(* ---------------------------------------------------------------- state *)
VARIABLES
    sandboxed,   \* in_flatpak_sandbox(): fixed by the process environment
    dataDirOk,   \* dirs::data_dir() is Some
    homeDirOk,   \* dirs::home_dir() is Some
    storageDir,  \* the storage directory exists
    appsDir,     \* the menu-entries directory exists
    storage,     \* names of the files in the storage directory
    apps,        \* menu-entries directory: file name -> content
    last,        \* the call that returned last; val holds what it returned
                 \* (add: the entry, list: the entries) or did (launch: the
                 \* bundle files it spawned a process for)
    clean,       \* history: no filesystem operation has failed so far
    probe,       \* a pure function applied to one input, stage by stage
    run          \* the calls in progress when they are taken step by step

vars == <<sandboxed, dataDirOk, homeDirOk, storageDir, appsDir, storage,
          apps, last, clean, probe, run>>
env == <<sandboxed, dataDirOk, homeDirOk>>
fsvars == <<storageDir, appsDir, storage, apps>>

NoCall == [op |-> "none", arg |-> None, at |-> "none", res |-> Ok, val |-> <<>>]
NoProbe == [stage |-> "none"]
NoRun == [mode |-> "none"]

(* ------------------------------------------------------ storage locator *)
\* ensure_dirs: mk names the create_dir_all that fails when it has to
\* create its directory ("none", "storage" or "apps")
EnsureDirsRes(mk) ==
    IF ~dataDirOk THEN ErrDataDir
    ELSE IF ~sandboxed /\ ~homeDirOk THEN ErrHome
    ELSE IF ~storageDir /\ mk = "storage" THEN ErrIo
    ELSE IF ~appsDir /\ mk = "apps" THEN ErrIo
    ELSE Ok

EnsureDirsStorage(mk) ==
    IF ~dataDirOk \/ (~sandboxed /\ ~homeDirOk) THEN storageDir
    ELSE IF ~storageDir /\ mk = "storage" THEN FALSE
    ELSE TRUE

EnsureDirsApps(mk) ==
    IF EnsureDirsStorage(mk) /\ EnsureDirsRes(mk) = Ok THEN TRUE ELSE appsDir

ensure_dirs(mk) ==
    [res |-> EnsureDirsRes(mk),
     storageDir |-> EnsureDirsStorage(mk),
     appsDir |-> EnsureDirsApps(mk)]

MkFaults == {"none", "storage", "apps"}

(* ------------------------------------------------------- icon extractor *)
\* A file of the extracted tree: its extension as written (None when it has
\* none) and whether Path::exists holds for it (false for a dangling link).
TreeFile(ext, exists) == [ext |-> ext, exists |-> exists]

IsIconExt(ext) == ext # None /\ ToLowercase(ext) \in {EXT_png, EXT_svg, EXT_xpm, EXT_ico}

RECURSIVE Flatten(_)
Flatten(ss) == IF ss = <<>> THEN <<>> ELSE Head(ss) \o Flatten(Tail(ss))

IsRecognized(f) == IsIconExt(f.ext)

\* variant: .DirIcon is looked at after the directories
CandidatesDirIconLast(tree) ==
    Flatten([i \in 1..Len(tree.dirs) |-> SelectSeq(tree.dirs[i], IsRecognized)])
        \o <<TreeFile(None, tree.dirIcon = "file")>>

\* the candidate list: .DirIcon, then the recognized files of the 256x256,
\* 128x128, 64x64 and pixmaps directories, in enumeration order
Candidates(tree) ==
    <<TreeFile(None, tree.dirIcon = "file")>>
        \o Flatten([i \in 1..Len(tree.dirs) |-> SelectSeq(tree.dirs[i], IsRecognized)])

\* variant: the exit status is looked at after the candidate was copied
extract_icon_copy_first(how, tree, cp) ==
    IF how \in {"tmpfail", "spawnfail"}
    THEN [icon |-> None, file |-> None,
          via |-> IF how = "tmpfail" THEN "tmpdir" ELSE "spawn"]
    ELSE LET cands == Candidates(tree)
             ex == {i \in 1..Len(cands) : cands[i].exists}
         IN  IF ex = {}
             THEN [icon |-> None, file |-> None,
                   via |-> IF how = "nonzero" THEN "status" ELSE "candidate"]
             ELSE LET src == cands[CHOOSE i \in ex : \A j \in ex : i <= j]
                      ext == IF src.ext = None THEN EXT_png ELSE ToLowercase(src.ext)
                  IN  IF cp = "none" THEN [icon |-> None, file |-> None, via |-> "copy"]
                      ELSE IF cp = "partial"
                      THEN [icon |-> None, file |-> ext, via |-> "copy"]
                      ELSE IF how = "nonzero"
                      THEN [icon |-> None, file |-> ext, via |-> "status"]
                      ELSE [icon |-> ext, file |-> ext, via |-> "ok"]

\* extract_icon: how is how the extraction subprocess went, cp how the copy
\* of the chosen candidate went.  icon is the extension of the returned
\* path (None: no icon), file the storage file the copy created or
\* truncated (None: storage untouched).
\* via is the place extract_icon returned at: "tmpdir" (line 83), "spawn"
\* (line 88), "status" (line 90), "candidate" (line 115), "copy" (line 125)
\* or "ok" (line 123).
extract_icon(how, tree, cp) ==
    IF how # "ok"
    THEN [icon |-> None, file |-> None,
          via |-> IF how = "tmpfail" THEN "tmpdir"
                  ELSE IF how = "spawnfail" THEN "spawn" ELSE "status"]
    ELSE LET cands == Candidates(tree)
             ex == {i \in 1..Len(cands) : cands[i].exists}
         IN  IF ex = {} THEN [icon |-> None, file |-> None, via |-> "candidate"]
             ELSE LET src == cands[CHOOSE i \in ex : \A j \in ex : i <= j]
                      ext == IF src.ext = None THEN EXT_png ELSE ToLowercase(src.ext)
                  IN  IF cp = "ok" THEN [icon |-> ext, file |-> ext, via |-> "ok"]
                      ELSE IF cp = "partial"
                      THEN [icon |-> None, file |-> ext, via |-> "copy"]
                      ELSE [icon |-> None, file |-> None, via |-> "copy"]

\* how the subprocess can go: no temporary directory, not spawned, nonzero
\* exit status, success
ExtractRuns == {"tmpfail", "spawnfail", "nonzero", "ok"}
\* fs::copy: done, failed before the destination was opened, failed after
CopyFaults == {"ok", "none", "partial"}

EXT_PNG == <<"P","N","G">>
EXT_jpg == <<"j","p","g">>
DirChoices ==
    { <<>>,
      <<TreeFile(EXT_svg, TRUE)>>,
      <<TreeFile(EXT_jpg, TRUE), TreeFile(EXT_PNG, TRUE)>>,
      <<TreeFile(EXT_svg, FALSE)>>,
      <<TreeFile(None, TRUE)>> }
Trees ==
    { [dirIcon |-> d, dirs |-> <<a, b, c, e>>] :
        d \in {"absent", "file", "dangling"}, a \in DirChoices, b \in DirChoices,
        c \in {<<>>, <<TreeFile(EXT_svg, TRUE)>>}, e \in DirChoices }

ExtractOutcomes ==
    { extract_icon(how, tree, cp) : how \in ExtractRuns, tree \in Trees, cp \in CopyFaults }

(* ---------------------------------------------------- menu entry writer *)
\* the descriptor write_desktop_file renders: Name=, Exec= and the Icon=
\* line (None: the blank line)
DesktopContent(name, exec_path, icon_path) ==
    [name |-> name, exec |-> exec_path, icon |-> icon_path, complete |-> TRUE]
\* what File::create leaves when write_all fails
Truncated == [name |-> <<>>, exec |-> None, icon |-> None, complete |-> FALSE]

\* File::create fails ("create"), write_all fails ("write"), or neither
WriteFaults == {"ok", "create", "write"}

write_desktop_file(name, exec_path, icon_path, desktop_path, wr) ==
    IF wr = "create" THEN apps
    ELSE [f \in DOMAIN apps \cup {desktop_path} |->
            IF f # desktop_path THEN apps[f]
            ELSE IF wr = "ok" THEN DesktopContent(name, exec_path, icon_path)
            ELSE Truncated]

(* ------------------------------------------------------------- inputs *)
\* source file names add_appimage is called with: "A.AppImage" and
\* "A.appimage" derive the name "A" and the id "a", "-.AppImage" derives the
\* name "-" and the id ""
SourceNames ==
    { <<"A",".">> \o EXT_AppImage,
      <<"A",".">> \o EXT_appimage,
      <<"-",".">> \o EXT_AppImage }

\* ids remove_app and launch_app are called with
IdArgs == { <<"a">>, <<>>, <<"z">> }

\* the create_dir_all failures that can happen in the current state
MkChoices == IF storageDir /\ appsDir THEN {"none"} ELSE MkFaults

(* -------------------------------------------------------------- history *)
Call(op, arg, at, res, val) ==
    [op |-> op, arg |-> arg, at |-> at, res |-> res, val |-> val]

\* one call returns: the filesystem it leaves and the record of the call;
\* faulty: a filesystem operation of the call failed
ReturnWith(call, faulty, sd, ad, st, ap) ==
    /\ last' = call
    /\ clean' = (clean /\ ~faulty)
    /\ storageDir' = sd
    /\ appsDir' = ad
    /\ storage' = st
    /\ apps' = ap
    /\ UNCHANGED <<env, probe, run>>

\* a call returns without a failed filesystem operation
Return(call, sd, ad, st, ap) == ReturnWith(call, FALSE, sd, ad, st, ap)

(* ------------------------------------------------------------------ add *)
Unbound == <<"unbound">>

\* variant: the stored bundle keeps the extension of the source file
AddDestKeepExt(src, id) == FileOf(id, Extension(src))

\* line 167: the bundle's file name in storage
AddDest(src, id) == FileOf(id, EXT_AppImage)

\* line 186 reads desktop_path, which line 177 binds inside the
\* `if !in_flatpak_sandbox()` block only: in sandboxed mode no binding exists
AddDesktopFile(id) == IF sandboxed THEN Unbound ELSE DesktopOf(id)

\* add's input: the source path's file name and whether the path exists
AddArg(src, exists) == [path |-> src, exists |-> exists]

\* variant: ensure_dirs is called before the source path is looked at
AddMissingAfterDirs(src) ==
    \E mk \in MkChoices :
      LET d == ensure_dirs(mk) IN
      ReturnWith(Call("add", AddArg(src, FALSE), "exists",
                      IF d.res # Ok THEN d.res ELSE ErrFile, <<>>),
                 d.res = ErrIo, d.storageDir, d.appsDir, storage, apps)

\* lines 161-163: the source path does not exist
AddMissing(src) ==
    Return(Call("add", AddArg(src, FALSE), "exists", ErrFile, <<>>),
           storageDir, appsDir, storage, apps)

\* the record of an add that got past extract_icon: ex is the place
\* extract_icon returned at
AddCall(src, at, res, val, x) ==
    [op |-> "add", arg |-> AddArg(src, TRUE), at |-> at, res |-> res,
     val |-> val, ex |-> x.via]

\* extract_icon returned because a filesystem operation failed
ExtractFaulty(x) == x.via \in {"tmpdir", "copy"}

\* lines 164-187: the source path exists
AddExisting(src) ==
    \E mk \in MkChoices,
       name \in {parse_appimage_name(src)} :
    \E id \in {sanitize_filename(name)} :
      LET d    == ensure_dirs(mk)
          dest == AddDest(src, id)
      IN
      IF d.res # Ok
      THEN ReturnWith(Call("add", AddArg(src, TRUE), "dirs", d.res, <<>>),
                      d.res = ErrIo, d.storageDir, d.appsDir, storage, apps)
      ELSE \E cp \in CopyFaults :
        IF cp # "ok"
        THEN ReturnWith(Call("add", AddArg(src, TRUE), "copy", ErrIo, <<>>), TRUE,
                        TRUE, TRUE,
                        IF cp = "partial" THEN storage \cup {dest} ELSE storage,
                        apps)
        ELSE \E chmodOk \in BOOLEAN :
          IF ~chmodOk
          THEN ReturnWith(Call("add", AddArg(src, TRUE), "chmod", ErrIo, <<>>), TRUE,
                          TRUE, TRUE, storage \cup {dest}, apps)
          ELSE \E x \in ExtractOutcomes :
            LET st == storage \cup {dest}
                        \cup (IF x.file = None THEN {} ELSE {FileOf(id, x.file)})
                icon_path == IF x.icon = None THEN None ELSE FileOf(id, x.icon)
                entry == [id |-> id, name |-> name, path |-> dest,
                          icon_path |-> icon_path,
                          desktop_file |-> AddDesktopFile(id)]
            IN
            IF sandboxed
            THEN ReturnWith(AddCall(src, "done", Ok, entry, x), ExtractFaulty(x),
                            TRUE, TRUE, st, apps)
            ELSE \E wr \in WriteFaults :
              LET ap == write_desktop_file(name, dest, icon_path, DesktopOf(id), wr) IN
              IF wr # "ok"
              THEN ReturnWith(AddCall(src, "desktop", ErrIo, <<>>, x), TRUE,
                              TRUE, TRUE, st, ap)
              ELSE ReturnWith(AddCall(src, "done", Ok, entry, x), ExtractFaulty(x),
                              TRUE, TRUE, st, ap)

Add ==
    \E src \in SourceNames, exists \in BOOLEAN :
        IF exists THEN AddExisting(src) ELSE AddMissing(src)

(* ----------------------------------------------------------------- list *)
\* line 136-138: the storage files list_apps takes for bundles
IsBundleFile(p) ==
    LET ext == Extension(p) IN ext # None /\ ToLowercase(ext) = EXT_appimage

\* line 143: the first of {id}.png, .svg, .ico, .xpm that exists
FindIcon(id, st) ==
    FindFirst([i \in 1..Len(IconExts) |-> FileOf(id, IconExts[i])], st)

\* lines 139-150: the entry list_apps builds for the storage file p
ListEntry(p, st) ==
    LET name == parse_appimage_name(p)
        id   == sanitize_filename(name)
    IN  [id |-> id, name |-> name, path |-> p,
         icon_path |-> FindIcon(id, st),
         desktop_file |-> DesktopOf(id)]

\* lines 132-155; readOk: fs::read_dir succeeded
list_apps(readOk) ==
    IF readOk THEN {ListEntry(p, storage) : p \in {f \in storage : IsBundleFile(f)}}
    ELSE {}

List ==
    \E mk \in MkChoices :
      LET d == ensure_dirs(mk) IN
      IF d.res # Ok
      THEN ReturnWith(Call("list", None, "dirs", d.res, {}), d.res = ErrIo,
                      d.storageDir, d.appsDir, storage, apps)
      ELSE \E readOk \in BOOLEAN :
             ReturnWith(Call("list", None, IF readOk THEN "done" ELSE "unreadable",
                             Ok, list_apps(readOk)),
                        ~readOk, TRUE, TRUE, storage, apps)

(* --------------------------------------------------------------- remove *)
\* lines 194-201, one iteration: failing says whether fs::remove_file fails
RemoveBundle(acc, id, i, failing) ==
    LET p == FileOf(id, BundleExts[i]) IN
    IF acc.res # Ok \/ p \notin acc.storage THEN acc
    ELSE IF failing THEN [acc EXCEPT !.res = ErrIo]
    ELSE [acc EXCEPT !.storage = acc.storage \ {p}, !.ok_any = TRUE]

\* variant: a removed icon also counts as "something was removed"
RemoveOkAnyIcons(bundleRemoved, iconPresent, entryFound) ==
    bundleRemoved \/ iconPresent \/ entryFound

\* lines 194, 199, 212, 215: ok_any, what counts as "something was removed"
RemoveOkAny(bundleRemoved, iconPresent, entryFound) == bundleRemoved \/ entryFound

\* lines 192-215 after ensure_dirs.  rmFail: the bundle extensions whose
\* deletion fails; keep: the icon extensions whose deletion fails; deskOk:
\* the deletion of the menu entry succeeds; faulty: a deletion failed
remove_app(id, rmFail, keep, deskOk) ==
    LET a0 == [res |-> Ok, storage |-> storage, ok_any |-> FALSE]
        a1 == RemoveBundle(a0, id, 1, 1 \in rmFail)
        a2 == RemoveBundle(a1, id, 2, 2 \in rmFail)
        icons == {FileOf(id, IconExts[i]) : i \in {j \in 1..Len(IconExts) : IconExts[j] \notin keep}}
        desktop == DesktopOf(id)
        found == ~sandboxed /\ desktop \in DOMAIN apps
        ap == IF found /\ deskOk
              THEN [f \in DOMAIN apps \ {desktop} |-> apps[f]]
              ELSE apps
        ok_any == RemoveOkAny(a2.ok_any, icons \cap a2.storage # {}, found)
    IN  IF a2.res # Ok
        THEN [res |-> a2.res, at |-> "bundle", storage |-> a2.storage,
              apps |-> apps, faulty |-> TRUE]
        ELSE [res |-> IF ok_any THEN Ok ELSE ErrApp, at |-> "done",
              storage |-> a2.storage \ icons, apps |-> ap,
              faulty |-> (keep # {} \/ (found /\ ~deskOk))]

Remove ==
    \E id \in IdArgs, mk \in MkChoices :
      LET d == ensure_dirs(mk)
          \* history: the call before this one was a successful add of id
          afterAdd == last.op = "add" /\ last.res = Ok /\ last.val.id = id
      IN
      IF d.res # Ok
      THEN ReturnWith(Call("remove", id, "dirs", d.res, <<afterAdd>>),
                      d.res = ErrIo, d.storageDir, d.appsDir, storage, apps)
      ELSE \E rmFail \in SUBSET {i \in 1..2 : FileOf(id, BundleExts[i]) \in storage},
              keep \in SUBSET {e \in Range(IconExts) : FileOf(id, e) \in storage},
              deskOk \in BOOLEAN :
             LET r == remove_app(id, rmFail, keep, deskOk) IN
             ReturnWith(Call("remove", id, r.at, r.res, <<afterAdd>>),
                        r.faulty, TRUE, TRUE, r.storage, r.apps)

(* --------------------------------------------------------------- launch *)
\* variant: only the extension add writes is looked for
FindBundleCanonical(id, st) == FindFirst(<<FileOf(id, EXT_AppImage)>>, st)

\* line 221: the first of {id}.AppImage, {id}.appimage that exists
FindBundle(id, st) ==
    FindFirst([i \in 1..Len(BundleExts) |-> FileOf(id, BundleExts[i])], st)

\* variant: the spawned bundle is consumed
SpawnConsumes(app_path, st) == st \ {app_path}

\* lines 222-224: Command::new(app_path).spawn() starts the bundle and
\* leaves the stored files as they are
Spawn(app_path, st) == st

Launch ==
    \E id \in IdArgs, mk \in MkChoices :
      LET d == ensure_dirs(mk)
          app_path == FindBundle(id, storage)
      IN
      IF d.res # Ok
      THEN ReturnWith(Call("launch", id, "dirs", d.res, <<>>), d.res = ErrIo,
                      d.storageDir, d.appsDir, storage, apps)
      ELSE IF app_path = None
      THEN Return(Call("launch", id, "find", ErrLaunch, <<>>),
                  TRUE, TRUE, storage, apps)
      ELSE \E spawnOk \in BOOLEAN :
             IF spawnOk
             THEN Return(Call("launch", id, "done", Ok, <<app_path>>),
                         TRUE, TRUE, Spawn(app_path, storage), apps)
             ELSE Return(Call("launch", id, "spawn", ErrIo, <<>>),
                         TRUE, TRUE, storage, apps)

(* -------------------------------------------------------- specification *)
EnvInit ==
    /\ sandboxed \in BOOLEAN
    /\ dataDirOk \in BOOLEAN
    /\ homeDirOk \in BOOLEAN

Init ==
    /\ EnvInit
    /\ storageDir = FALSE
    /\ appsDir = FALSE
    /\ storage = {}
    /\ apps = <<>>
    /\ last = NoCall
    /\ clean = TRUE
    /\ probe = NoProbe
    /\ run = NoRun

Next == Add \/ List \/ Remove \/ Launch

Spec == Init /\ [][Next]_vars

\* Storage that an earlier version or the user left a bundle in, under the
\* lower-case extension remove_app and launch_app also accept.
LegacyFiles == {FileOf(<<"a">>, EXT_appimage)}

InitLegacy ==
    /\ EnvInit
    /\ storage \in IF dataDirOk THEN SUBSET LegacyFiles ELSE {{}}
    /\ storageDir = (storage # {})
    /\ appsDir = FALSE
    /\ apps = <<>>
    /\ last = NoCall
    /\ clean = TRUE
    /\ probe = NoProbe
    /\ run = NoRun

SpecLegacy == InitLegacy /\ [][Next]_vars

(* ------------------------------------------- identity-deriver pipeline *)
\* The identity deriver on its own: a source file name goes through add's
\* derivation (lines 165-167) and the stored file name through list's
\* (lines 136-140).
MaxLen == 3
Alphabet == {"a", "A", "1", "-", "_", " ", ".", "@"}
Stems == UNION {[1..n -> Alphabet] : n \in 0..MaxLen}
\* the extensions the probed file names end in
ProbeExts == {<<>>, <<".">> \o EXT_AppImage, <<".">> \o EXT_appimage}
ProbeNames == {s \o e : s \in Stems, e \in ProbeExts} \ {<<>>, <<".">>, <<".", ".">>}

(* ------------------------------------------------- icon extraction *)
\* extract_icon on its own (lines 80-127): one extraction run over one
\* extracted tree.
Extract ==
    /\ probe.stage = "tree"
    /\ probe' = [stage |-> "extracted", how |-> probe.how, tree |-> probe.tree,
                 cp |-> probe.cp,
                 out |-> extract_icon(probe.how, probe.tree, probe.cp)]
    /\ UNCHANGED <<env, fsvars, last, clean, run>>

InitIcon ==
    /\ sandboxed = FALSE
    /\ dataDirOk = TRUE
    /\ homeDirOk = TRUE
    /\ storageDir = TRUE
    /\ appsDir = TRUE
    /\ storage = {}
    /\ apps = <<>>
    /\ last = NoCall
    /\ clean = TRUE
    /\ run = NoRun
    /\ \E how \in ExtractRuns, tree \in Trees, cp \in CopyFaults :
         probe = [stage |-> "tree", how |-> how, tree |-> tree, cp |-> cp]

NextIcon == Extract

SpecIcon == InitIcon /\ [][NextIcon]_vars

\* the file name the documentation of the identity deriver works through
ExampleName ==
    <<"M","y","A","p","p","-","1",".","2",".","3","_","x","8","6","_","6","4",".">>
      \o EXT_AppImage

\* lines 42-48 on their own: sanitize_filename applied to a raw string
Sanitize ==
    /\ probe.stage = "raw"
    /\ probe' = [stage |-> "sanitized", s |-> probe.s,
                 out |-> sanitize_filename(probe.s)]
    /\ UNCHANGED <<env, fsvars, last, clean, run>>

Derive ==
    /\ probe.stage = "input"
    /\ \E name \in {parse_appimage_name(probe.f)} :
         probe' = [stage |-> "derived", f |-> probe.f, name |-> name,
                   id |-> sanitize_filename(name)]
    /\ UNCHANGED <<env, fsvars, last, clean, run>>

Store ==
    /\ probe.stage = "derived"
    /\ probe' = [stage |-> "stored", f |-> probe.f, name |-> probe.name,
                 id |-> probe.id, stored |-> AddDest(probe.f, probe.id)]
    /\ UNCHANGED <<env, fsvars, last, clean, run>>

Relist ==
    /\ probe.stage = "stored"
    /\ probe' = [stage |-> "listed", f |-> probe.f, name |-> probe.name,
                 id |-> probe.id, stored |-> probe.stored,
                 listed |-> IsBundleFile(probe.stored),
                 relisted |-> ListEntry(probe.stored, {probe.stored})]
    /\ UNCHANGED <<env, fsvars, last, clean, run>>

InitName ==
    /\ sandboxed = FALSE
    /\ dataDirOk = TRUE
    /\ homeDirOk = TRUE
    /\ storageDir = FALSE
    /\ appsDir = FALSE
    /\ storage = {}
    /\ apps = <<>>
    /\ last = NoCall
    /\ clean = TRUE
    /\ run = NoRun
    /\ \/ \E f \in ProbeNames \cup {ExampleName} : probe = [stage |-> "input", f |-> f]
       \/ \E str \in Stems : probe = [stage |-> "raw", s |-> str]

NextName == Derive \/ Store \/ Relist \/ Sanitize

SpecName == InitName /\ [][NextName]_vars

(* --------------------------------------------------------------- claims *)
\* the bundle files of an id, under either case variant of the extension
BundleFilesOf(id, st) == {FileOf(id, EXT_AppImage), FileOf(id, EXT_appimage)} \cap st
\* the icon files of an id, under the recognized extensions
IconFilesOf(id, st) ==
    {FileOf(id, EXT_png), FileOf(id, EXT_svg), FileOf(id, EXT_ico), FileOf(id, EXT_xpm)} \cap st
HasMenuEntry(id, ap) == DesktopOf(id) \in DOMAIN ap
\* the id add derives from a source file name
IdOfSource(src) == sanitize_filename(parse_appimage_name(src))
\* the ids the calls of the model can name
IdsInPlay == IdArgs \cup {IdOfSource(src) : src \in SourceNames}

\* C1: whatever the file name of an existing source file (an empty derived
\* id included), the list that immediately follows a successful add and
\* reads the storage directory returns exactly one entry with the id add
\* returned, and that entry has the bundle_path add returned.
C1_AddThenListOnce ==
    [][(last.op = "add" /\ last.res = Ok /\ last'.op = "list" /\ last'.at = "done")
         => /\ Cardinality({e \in last'.val : e.id = last.val.id}) = 1
            /\ \A e \in last'.val : e.id = last.val.id => e.path = last.val.path]_vars

\* C2: in either mode, after a successful add of id X and then a successful
\* remove(X), a list returns no entry with id X and a second remove(X) fails
\* with a "not found" error.
C2_AddRemoveThenGone ==
    [][(last.op = "remove" /\ last.res = Ok /\ last.val[1])
         => /\ (last'.op = "list" => \A e \in last'.val : e.id # last.arg)
            /\ (last'.op = "remove" /\ last'.arg = last.arg
                  => ContainsNotFound(last'.res))]_vars

\* C3: after two successful adds that derive the same id, whatever icons the
\* two extractions produce (here: each add returned an icon), storage holds
\* exactly one bundle file for the id and at most one icon file {id}.{ext}.
C3_ReAddOneBundleOneIcon ==
    [][(/\ last.op = "add" /\ last.res = Ok
        /\ last'.op = "add" /\ last'.res = Ok
        /\ last'.val.id = last.val.id
        /\ last.val.icon_path # None /\ last'.val.icon_path # None)
         => /\ Cardinality(BundleFilesOf(last'.val.id, storage')) = 1
            /\ Cardinality(IconFilesOf(last'.val.id, storage')) <= 1]_vars

\* C4: id stability under reconstruction: the id list re-derives from the
\* stored bundle file name "{id}.AppImage" equals the id add derived from the
\* source file name.
C4_IdStableUnderReconstruction ==
    probe.stage = "listed" => probe.relisted.id = probe.id

\* C5: from empty storage, after any sequence of calls, storage holds at
\* most one bundle file per id and a list never returns two entries with the
\* same id.
C5_OneBundlePerId ==
    /\ \A id \in IdsInPlay : Cardinality(BundleFilesOf(id, storage)) <= 1
    /\ last.op = "list" => \A e1, e2 \in last.val : e1.id = e2.id => e1 = e2

\* C5 witness: a list has returned the entry of the id "a" while the bundles
\* of two ids are stored.
C5_Witness ==
    /\ last.op = "list" /\ last.at = "done"
    /\ \E e \in last.val : e.id = <<"a">>
    /\ Cardinality({f \in storage : Extension(f) = EXT_AppImage
                                      \/ f = FileOf(<<>>, EXT_AppImage)}) = 2

\* what remove_app looks for: no bundle file of the id and, outside the
\* sandbox, no menu entry of the id
NothingToRemove(id) ==
    /\ BundleFilesOf(id, storage) = {}
    /\ ~sandboxed => ~HasMenuEntry(id, apps)

\* C6 as stated: remove(id) returns the "not found" error exactly when, at
\* the time of the call, there is no bundle file and (outside the sandbox) no
\* menu entry for the id (here: in an environment whose data and home
\* directories are known).
C6_RemoveNotFoundExactly ==
    [][(last'.op = "remove" /\ dataDirOk /\ homeDirOk)
         => (ContainsNotFound(last'.res) <=> NothingToRemove(last'.arg))]_vars

\* C6 amended: when the directories resolve, remove(id) returns "App not
\* found" exactly when there is no bundle file and (outside the sandbox) no
\* menu entry for the id; icon files never change the outcome: the only other
\* failure is a bundle file whose deletion failed and which is still there.
C6_RemoveNotFoundWhenResolved ==
    [][(last'.op = "remove" /\ last'.at # "dirs")
         => /\ last'.res = ErrApp <=> NothingToRemove(last'.arg)
            /\ last'.res \notin {Ok, ErrApp}
                 => BundleFilesOf(last'.arg, storage') # {}]_vars

\* C6 witness: remove returned "App not found" for an id whose icon file is
\* in storage (its deletion failed).
C6_Witness ==
    /\ last.op = "remove" /\ last.res = ErrApp
    /\ IconFilesOf(last.arg, storage) # {}

\* C7: outside the sandbox, when the menu-entry write fails after the bundle
\* copy, add returns an error and rolls nothing back: the bundle stays in
\* storage, a following list includes the id, and a retried add of the same
\* file that succeeds leaves one bundle and one menu entry for the id.
C7_NoRollbackThenRetry ==
    [][(~sandboxed /\ last.op = "add" /\ last.at = "desktop")
         => /\ last.res # Ok
            /\ FileOf(IdOfSource(last.arg.path), EXT_AppImage) \in storage
            /\ (last'.op = "list" /\ last'.at = "done")
                 => \E e \in last'.val : e.id = IdOfSource(last.arg.path)
            /\ (last'.op = "add" /\ last'.res = Ok /\ last'.arg = last.arg)
                 => /\ Cardinality(BundleFilesOf(last'.val.id, storage')) = 1
                    /\ HasMenuEntry(last'.val.id, apps')]_vars

\* C8: in sandboxed mode no call creates or deletes a menu-entry file, and
\* add returns the computed path menu_dir/axec-{id}.desktop although no file
\* is there.
C8_SandboxNoMenuEntry ==
    sandboxed =>
        /\ DOMAIN apps = {}
        /\ (last.op = "add" /\ last.res = Ok)
             => last.val.desktop_file = DesktopOf(last.val.id)

\* C9: add on a source path that does not exist returns an error containing
\* "not found" and changes nothing: no directory is created and no bundle,
\* icon or menu-entry file is written.
C9_AddMissingSource ==
    [][(last'.op = "add" /\ ~last'.arg.exists)
         => (ContainsNotFound(last'.res) /\ UNCHANGED fsvars)]_vars

\* C9 witness: add of a missing source has returned and the directories,
\* which could have been created, are still absent.
C9_Witness ==
    /\ last.op = "add" /\ ~last.arg.exists /\ last.res = ErrFile
    /\ dataDirOk /\ (sandboxed \/ homeDirOk)
    /\ ~storageDir /\ ~appsDir

\* C10 as stated: launch(id) with no bundle file of the id returns an error
\* containing "not found" and spawns nothing; with a bundle file it spawns
\* exactly one process, for an existing bundle file of the id (here: for the
\* calls whose directories resolved).
C10_LaunchFoundOrNot ==
    [][(last'.op = "launch" /\ last'.at # "dirs")
         => IF BundleFilesOf(last'.arg, storage) = {}
            THEN ContainsNotFound(last'.res) /\ last'.val = <<>>
            ELSE /\ Len(last'.val) = 1
                 /\ last'.val[1] \in BundleFilesOf(last'.arg, storage)]_vars

\* C10 amended: launch(id) with no bundle file of the id returns an error
\* and spawns nothing, the error being "AppImage not found" when the
\* directories resolve; with a bundle file and the directories resolved it
\* tries to spawn and never answers "not found"; it spawns a process exactly
\* when it returns success, exactly one, for an existing bundle file of the
\* id ({id}.AppImage when that exists).
C10_LaunchSpawnsWhenItCan ==
    [][last'.op = "launch"
         => LET have == BundleFilesOf(last'.arg, storage) IN
            /\ have = {} => /\ last'.res # Ok
                            /\ last'.at # "dirs" => last'.res = ErrLaunch
            /\ (have # {} /\ last'.at # "dirs") => last'.at \in {"done", "spawn"}
            /\ last'.res # Ok => last'.val = <<>>
            /\ last'.res = Ok
                 => /\ Len(last'.val) = 1
                    /\ last'.val[1] \in have
                    /\ FileOf(last'.arg, EXT_AppImage) \in have
                         => last'.val[1] = FileOf(last'.arg, EXT_AppImage)]_vars

\* C10 witness: launch has spawned the bundle stored under the lower-case
\* extension.
C10_Witness ==
    /\ last.op = "launch" /\ last.res = Ok
    /\ last.val = <<FileOf(last.arg, EXT_appimage)>>

\* add got past extract_icon, and extract_icon returned because the
\* subprocess could not be spawned, exited nonzero or left no candidate
ExtractionGaveUp(call) ==
    /\ call.op = "add"
    /\ "ex" \in DOMAIN call
    /\ call.ex \in {"spawn", "status", "candidate"}

\* C11 as stated: when the extraction subprocess cannot be spawned, exits
\* nonzero or yields no candidate, extract_icon writes nothing to storage and
\* add returns success with icon_path absent, the menu entry (outside the
\* sandbox) written with a blank icon line.
C11_ExtractionNeverFailsAdd ==
    [][ExtractionGaveUp(last')
         => /\ storage' = storage \cup {FileOf(IdOfSource(last'.arg.path), EXT_AppImage)}
            /\ last'.res = Ok
            /\ last'.val.icon_path = None
            /\ ~sandboxed =>
                 /\ HasMenuEntry(last'.val.id, apps')
                 /\ apps'[DesktopOf(last'.val.id)].complete
                 /\ apps'[DesktopOf(last'.val.id)].icon = None]_vars

\* C11: when the extraction subprocess cannot be spawned, exits nonzero or
\* yields no candidate, extract_icon writes nothing to storage and add goes
\* on to the menu-entry step; add then fails only if writing the menu entry
\* fails, and otherwise returns success with icon_path absent, the menu
\* entry (outside the sandbox) written with a blank icon line.
C11_ExtractionFailureIsNoError ==
    [][ExtractionGaveUp(last')
         => /\ storage' = storage \cup {FileOf(IdOfSource(last'.arg.path), EXT_AppImage)}
            /\ last'.at \in {"desktop", "done"}
            /\ last'.at = "desktop" => ~sandboxed /\ last'.res = ErrIo
            /\ last'.at = "done" =>
                 /\ last'.res = Ok
                 /\ last'.val.icon_path = None
                 /\ ~sandboxed =>
                      /\ HasMenuEntry(last'.val.id, apps')
                      /\ apps'[DesktopOf(last'.val.id)].complete
                      /\ apps'[DesktopOf(last'.val.id)].icon = None]_vars

\* C11 witness: outside the sandbox an add whose extraction subprocess
\* exited nonzero has returned success without an icon, its menu entry
\* written with a blank icon line and no icon file in storage.
C11_Witness ==
    /\ ExtractionGaveUp(last) /\ last.ex = "status"
    /\ ~sandboxed /\ last.res = Ok /\ last.val.icon_path = None
    /\ HasMenuEntry(last.val.id, apps)
    /\ apps[DesktopOf(last.val.id)].icon = None
    /\ IconFilesOf(last.val.id, storage) = {}

\* C12 as stated: for the source file name MyApp-1.2.3_x86_64.AppImage the
\* derived display name is "MyApp 1 2 3 x86 64" and the id sanitize_filename
\* returns for it is "myapp-1-2-3-x86-64".
C12_ExampleAllSeparatorsCollapse ==
    (probe.stage = "derived" /\ probe.f = ExampleName)
      => /\ probe.name = <<"M","y","A","p","p"," ","1"," ","2"," ","3"," ",
                           "x","8","6"," ","6","4">>
         /\ probe.id = <<"m","y","a","p","p","-","1","-","2","-","3","-",
                         "x","8","6","-","6","4">>

\* C12: for the source file name MyApp-1.2.3_x86_64.AppImage the derived
\* display name is "MyApp-1 2 3_x86_64" ('-' and '_' are kept, each '.'
\* becomes a space) and the id sanitize_filename returns for it is
\* "myapp-1-2-3_x86_64".
C12_ExampleKeepsDashUnderscore ==
    (probe.stage = "derived" /\ probe.f = ExampleName)
      => /\ probe.name = <<"M","y","A","p","p","-","1"," ","2"," ","3","_",
                           "x","8","6","_","6","4">>
         /\ probe.id = <<"m","y","a","p","p","-","1","-","2","-","3","_",
                         "x","8","6","_","6","4">>

\* C12 witness: the example file name has been through the derivation and
\* its id has 18 characters, the first of them "m".
C12_Witness ==
    /\ probe.stage = "derived" /\ probe.f = ExampleName
    /\ Len(probe.id) = Len(probe.name) /\ Len(probe.id) = 18
    /\ probe.id[1] = "m"

\* the characters a sanitized id is made of
SanitizedChars == Range(LowerSeq) \cup Range(DigitSeq) \cup {"-", "_"}

\* C13: for every input string the output of sanitize_filename contains
\* only lowercase ASCII letters, ASCII digits, '-' and '_', and neither
\* begins nor ends with '-'.
C13_SanitizeOutputShape ==
    probe.stage = "sanitized"
      => /\ \A i \in 1..Len(probe.out) : probe.out[i] \in SanitizedChars
         /\ probe.out # <<>> =>
              probe.out[1] # "-" /\ probe.out[Len(probe.out)] # "-"

\* C13 witness: an input with an upper-case letter, a character that is
\* replaced and a leading '-' has been sanitized to a non-empty id.
C13_Witness ==
    /\ probe.stage = "sanitized"
    /\ probe.s # <<>> /\ probe.s[1] = "-"
    /\ \E i, j \in 1..Len(probe.s) : probe.s[i] = "A" /\ probe.s[j] = "@"
    /\ probe.out # <<>>

\* C15: multi-file consistency under single-caller use: outside the sandbox,
\* from empty directories and with no filesystem operation failing, after
\* every completed call a menu entry of an id exists only if a bundle file
\* of the id is stored, and an icon file of an id exists only if a bundle
\* file of the id is stored.
C15_MultiFileConsistency ==
    (clean /\ ~sandboxed) =>
      \A id \in IdsInPlay :
        /\ HasMenuEntry(id, apps) => BundleFilesOf(id, storage) # {}
        /\ IconFilesOf(id, storage) # {} => BundleFilesOf(id, storage) # {}

\* C15 witness: outside the sandbox and with no failure so far, a remove
\* that followed a successful add has succeeded, and another id still has
\* its bundle, its icon and its menu entry.
C15_Witness ==
    /\ clean /\ ~sandboxed
    /\ last.op = "remove" /\ last.res = Ok /\ last.val[1]
    /\ BundleFilesOf(last.arg, storage) = {}
    /\ \E id \in IdsInPlay :
         /\ HasMenuEntry(id, apps)
         /\ IconFilesOf(id, storage) # {}
         /\ BundleFilesOf(id, storage) # {}

\* C16: whenever remove(id) returns success, runs in which file deletions
\* fail included, afterwards no bundle file of the id exists under either
\* extension and, outside the sandbox, no menu entry of the id exists.
C16_RemoveSuccessLeavesNothing ==
    [][(last'.op = "remove" /\ last'.res = Ok)
         => /\ BundleFilesOf(last'.arg, storage') = {}
            /\ ~sandboxed => ~HasMenuEntry(last'.arg, apps')]_vars

\* C17: immediately after any successful add (a first add or a re-add of an
\* id), with no filesystem operation failing, the icon_path list reports
\* for the id equals the icon_path add returned, and outside the sandbox the
\* icon line of the menu entry holds that same path or is blank.
C17_ListIconIsAddIcon ==
    [][(/\ last.op = "add" /\ last.res = Ok
        /\ last'.op = "list" /\ last'.at = "done" /\ clean')
         => /\ \A e \in last'.val :
                 e.id = last.val.id => e.icon_path = last.val.icon_path
            /\ ~sandboxed =>
                 apps'[DesktopOf(last.val.id)].icon = last.val.icon_path]_vars

\* C20: list and launch never create, modify or delete a bundle file, an
\* icon file or a menu entry; the only change either makes is that the
\* storage and the menu-entries directory exist afterwards.
C20_ListLaunchFrame ==
    [][last'.op \in {"list", "launch"}
         => /\ storage' = storage
            /\ apps' = apps
            /\ storageDir => storageDir'
            /\ appsDir => appsDir']_vars

\* C20 witness: a launch has spawned a stored bundle, the bundle is still
\* stored and both directories exist.
C20_Witness ==
    /\ last.op = "launch" /\ last.res = Ok
    /\ last.val[1] \in storage
    /\ storageDir /\ appsDir

\* the files of directory i of an extracted tree that have a recognized
\* icon extension and exist
UsableIn(tree, i) ==
    {k \in 1..Len(tree.dirs[i]) :
        /\ tree.dirs[i][k].ext # None
        /\ ToLowercase(tree.dirs[i][k].ext) \in {EXT_png, EXT_svg, EXT_xpm, EXT_ico}
        /\ tree.dirs[i][k].exists}

\* the extension the icon is stored under when the extraction subprocess
\* succeeded: "png" for an existing .DirIcon, else the lower-cased extension
\* of the first usable file of the first directory that has one, else None
ExpectedIconExt(tree) ==
    LET with == {i \in 1..Len(tree.dirs) : UsableIn(tree, i) # {}} IN
    IF tree.dirIcon = "file" THEN EXT_png
    ELSE IF with = {} THEN None
    ELSE LET i == CHOOSE d \in with : \A e \in with : d <= e
             k == CHOOSE f \in UsableIn(tree, i) : \A g \in UsableIn(tree, i) : f <= g
         IN  ToLowercase(tree.dirs[i][k].ext)

\* C19: when the extraction subprocess succeeds, extract_icon takes the
\* first existing candidate in the order .DirIcon, 256x256, 128x128, 64x64,
\* pixmaps, copies it to {id}.{ext} with ext its lower-cased extension or
\* "png" when it has none, and returns no icon when no candidate exists or
\* the copy fails.
C19_FirstExistingCandidate ==
    (probe.stage = "extracted" /\ probe.how = "ok") =>
      LET ext == ExpectedIconExt(probe.tree) IN
      /\ ext = None => probe.out.icon = None /\ probe.out.file = None
      /\ (ext # None /\ probe.cp = "ok") =>
            probe.out.icon = ext /\ probe.out.file = ext
      /\ (ext # None /\ probe.cp # "ok") =>
            probe.out.icon = None /\ probe.out.file \in {None, ext}

\* C19 witness: .DirIcon is a dangling link, the 256x256 directory is empty,
\* the 128x128 directory holds an upper-case .PNG and the pixmaps directory
\* an .svg; the icon has been stored as png.
C19_Witness ==
    /\ probe.stage = "extracted" /\ probe.how = "ok" /\ probe.cp = "ok"
    /\ probe.tree.dirIcon = "dangling"
    /\ probe.tree.dirs[1] = <<>>
    /\ \E k \in 1..Len(probe.tree.dirs[2]) : probe.tree.dirs[2][k].ext = EXT_PNG
    /\ probe.tree.dirs[4] = <<TreeFile(EXT_svg, TRUE)>>
    /\ probe.out.icon = EXT_png

(* ------------------------------------------------ calls taken by steps *)
\* One add_appimage, one remove_app and one launch_app of the same id, each
\* taken one system call at a time (the handlers are plain functions holding
\* no lock, lines 158-226).  mode "par": the steps of the calls interleave;
\* mode "seq": add and remove run one after the other, in either order.
\* sub is the extraction subprocess of add (lines 84-88), proc the process
\* launch spawns (lines 222-224).
RaceSrc == <<"A", ".">> \o EXT_AppImage
RaceName == parse_appimage_name(RaceSrc)
RaceId == sanitize_filename(RaceName)
RaceDest == AddDest(RaceSrc, RaceId)

\* the extracted trees of the stepwise add: with and without a .DirIcon
RaceTrees == {t \in Trees : \A i \in 1..Len(t.dirs) : t.dirs[i] = <<>>}

IdleRun(mode) ==
    [mode |-> mode, add |-> "idle", ares |-> Ok, icon |-> None, sub |-> "none",
     rem |-> "idle", rres |-> Ok, i |-> 1, ok_any |-> FALSE,
     lau |-> "idle", lres |-> Ok, proc |-> "none"]

\* a step of one call: the state of the calls and the filesystem it leaves
StepTo(r, faulty, sd, ad, st, ap) ==
    /\ run' = r
    /\ clean' = (clean /\ ~faulty)
    /\ storageDir' = sd
    /\ appsDir' = ad
    /\ storage' = st
    /\ apps' = ap
    /\ UNCHANGED <<env, probe, last>>

\* in mode "seq" a call takes a step only while the other call is not
\* under way
MayStep(other) == run.mode = "par" \/ other \in {"idle", "done"}

\* lines 161-164: the source exists; ensure_dirs
AddStart ==
    /\ run.add = "idle" /\ MayStep(run.rem)
    /\ LET d == ensure_dirs("none") IN
       StepTo(IF d.res = Ok THEN [run EXCEPT !.add = "copy"]
              ELSE [run EXCEPT !.add = "done", !.ares = d.res],
              FALSE, d.storageDir, d.appsDir, storage, apps)

\* line 168: fs::copy(p, &dest)?
AddCopy ==
    /\ run.add = "copy" /\ MayStep(run.rem)
    /\ \E ok \in BOOLEAN :
         IF ok
         THEN StepTo([run EXCEPT !.add = "chmod"], FALSE, storageDir, appsDir,
                     storage \cup {RaceDest}, apps)
         ELSE StepTo([run EXCEPT !.add = "done", !.ares = ErrIo], TRUE,
                     storageDir, appsDir, storage, apps)

\* line 169: make_executable(&dest)?, which fails when dest is gone
AddChmod ==
    /\ run.add = "chmod" /\ MayStep(run.rem)
    /\ \E ok \in IF RaceDest \in storage THEN BOOLEAN ELSE {FALSE} :
         IF ok
         THEN StepTo([run EXCEPT !.add = "spawn"], FALSE, storageDir, appsDir,
                     storage, apps)
         ELSE StepTo([run EXCEPT !.add = "done", !.ares = ErrIo], TRUE,
                     storageDir, appsDir, storage, apps)

\* lines 83-88: the temporary directory is made and the bundle is started
\* with --appimage-extract; it cannot be started when dest is gone
AddSpawn ==
    /\ run.add = "spawn" /\ MayStep(run.rem)
    /\ \E how \in IF RaceDest \in storage THEN {"tmpfail", "spawnfail", "ok"}
                  ELSE {"tmpfail", "spawnfail"} :
         IF how = "ok"
         THEN StepTo([run EXCEPT !.add = "wait", !.sub = "running"], FALSE,
                     storageDir, appsDir, storage, apps)
         ELSE \E x \in {extract_icon(how, CHOOSE t \in RaceTrees : TRUE, "ok")} :
                StepTo([run EXCEPT !.add = "desktop", !.icon = x.icon],
                       ExtractFaulty(x), storageDir, appsDir, storage, apps)

\* the extraction subprocess exits, with status 0 or not
SubExit ==
    /\ run.sub = "running"
    /\ \E status \in {"exited0", "exited1"} :
         StepTo([run EXCEPT !.sub = status], FALSE, storageDir, appsDir,
                storage, apps)

\* variant: the subprocess is started and not waited for
ReapedEarly(sub) == sub # "none"

\* lines 84-88: Command::status() returns once the subprocess has exited
Reaped(sub) == sub \in {"exited0", "exited1"}

\* lines 89-126: the exit status is looked at, the candidate is picked and
\* copied
AddReap ==
    /\ run.add = "wait" /\ MayStep(run.rem)
    /\ Reaped(run.sub)
    /\ \E tree \in RaceTrees, cp \in CopyFaults :
       \E x \in {extract_icon(IF run.sub = "exited0" THEN "ok" ELSE "nonzero",
                              tree, cp)} :
         StepTo([run EXCEPT !.add = "desktop", !.icon = x.icon],
                ExtractFaulty(x), storageDir, appsDir,
                storage \cup (IF x.file = None THEN {} ELSE {FileOf(RaceId, x.file)}),
                apps)

\* lines 176-187: the menu entry is written outside the sandbox; add returns
AddDesktop ==
    /\ run.add = "desktop" /\ MayStep(run.rem)
    /\ LET icon_path == IF run.icon = None THEN None ELSE FileOf(RaceId, run.icon) IN
       IF sandboxed
       THEN StepTo([run EXCEPT !.add = "done"], FALSE, storageDir, appsDir,
                   storage, apps)
       ELSE \E wr \in WriteFaults :
              StepTo([run EXCEPT !.add = "done",
                                 !.ares = IF wr = "ok" THEN Ok ELSE ErrIo],
                     wr # "ok", storageDir, appsDir, storage,
                     write_desktop_file(RaceName, RaceDest, icon_path,
                                        DesktopOf(RaceId), wr))

\* line 192: ensure_dirs
RemStart ==
    /\ run.rem = "idle" /\ MayStep(run.add)
    /\ LET d == ensure_dirs("none") IN
       StepTo(IF d.res = Ok
              THEN [run EXCEPT !.rem = "bundle", !.i = 1, !.ok_any = FALSE]
              ELSE [run EXCEPT !.rem = "done", !.rres = d.res],
              FALSE, d.storageDir, d.appsDir, storage, apps)

\* lines 195-201, one iteration: the bundle under extension i is deleted if
\* it exists, and a failing deletion is returned
RemBundle ==
    /\ run.rem = "bundle" /\ MayStep(run.add)
    /\ LET p == FileOf(RaceId, BundleExts[run.i])
           next == IF run.i < Len(BundleExts)
                   THEN [run EXCEPT !.i = run.i + 1]
                   ELSE [run EXCEPT !.rem = "icon", !.i = 1]
       IN
       IF p \notin storage
       THEN StepTo(next, FALSE, storageDir, appsDir, storage, apps)
       ELSE \E ok \in BOOLEAN :
              IF ok
              THEN StepTo([next EXCEPT !.ok_any = TRUE], FALSE, storageDir,
                          appsDir, storage \ {p}, apps)
              ELSE StepTo([run EXCEPT !.rem = "done", !.rres = ErrIo], TRUE,
                          storageDir, appsDir, storage, apps)

\* lines 203-206, one iteration: the icon under extension i is deleted if
\* it exists, a failing deletion is passed over
RemIcon ==
    /\ run.rem = "icon" /\ MayStep(run.add)
    /\ LET p == FileOf(RaceId, IconExts[run.i])
           next == IF run.i < Len(IconExts)
                   THEN [run EXCEPT !.i = run.i + 1]
                   ELSE [run EXCEPT !.rem = "desktop", !.i = 1]
       IN
       IF p \notin storage
       THEN StepTo(next, FALSE, storageDir, appsDir, storage, apps)
       ELSE \E ok \in BOOLEAN :
              StepTo(next, ~ok, storageDir, appsDir,
                     IF ok THEN storage \ {p} ELSE storage, apps)

\* variant: the menu entry is left where it is
WithoutEntryKept(ap, desktop) == ap

\* line 211: fs::remove_file(desktop), when it succeeds
WithoutEntry(ap, desktop) == [f \in DOMAIN ap \ {desktop} |-> ap[f]]

\* lines 208-215: outside the sandbox the menu entry is deleted if it
\* exists, a failing deletion is passed over; remove returns
RemDesktop ==
    /\ run.rem = "desktop" /\ MayStep(run.add)
    /\ LET desktop == DesktopOf(RaceId)
           found == ~sandboxed /\ desktop \in DOMAIN apps
           ok_any == RemoveOkAny(run.ok_any, FALSE, found)
           ret == [run EXCEPT !.rem = "done", !.ok_any = ok_any,
                              !.rres = IF ok_any THEN Ok ELSE ErrApp]
       IN
       IF ~found
       THEN StepTo(ret, FALSE, storageDir, appsDir, storage, apps)
       ELSE \E ok \in BOOLEAN :
              StepTo(ret, ~ok, storageDir, appsDir, storage,
                     IF ok THEN WithoutEntry(apps, desktop) ELSE apps)

\* lines 219-225: ensure_dirs, the bundle is looked for and spawned; launch
\* returns without waiting for the process
LaunchStep ==
    /\ run.lau = "idle"
    /\ LET d == ensure_dirs("none")
           app_path == FindBundle(RaceId, storage)
       IN
       IF d.res # Ok
       THEN StepTo([run EXCEPT !.lau = "done", !.lres = d.res], FALSE,
                   d.storageDir, d.appsDir, storage, apps)
       ELSE IF app_path = None
       THEN StepTo([run EXCEPT !.lau = "done", !.lres = ErrLaunch], FALSE,
                   d.storageDir, d.appsDir, storage, apps)
       ELSE \E spawnOk \in BOOLEAN :
              StepTo(IF spawnOk
                     THEN [run EXCEPT !.lau = "done", !.proc = "running"]
                     ELSE [run EXCEPT !.lau = "done", !.lres = ErrIo],
                     FALSE, d.storageDir, d.appsDir,
                     Spawn(app_path, storage), apps)

\* the launched process exits
ProcExit ==
    /\ run.proc = "running"
    /\ StepTo([run EXCEPT !.proc = "exited"], FALSE, storageDir, appsDir,
              storage, apps)

InitSteps ==
    /\ sandboxed \in BOOLEAN
    /\ dataDirOk = TRUE
    /\ homeDirOk = TRUE
    /\ storageDir = FALSE
    /\ appsDir = FALSE
    /\ storage = {}
    /\ apps = <<>>
    /\ last = NoCall
    /\ clean = TRUE
    /\ probe = NoProbe
    /\ run \in {IdleRun("par"), IdleRun("seq")}

AddSteps == AddStart \/ AddCopy \/ AddChmod \/ AddSpawn \/ AddReap \/ AddDesktop
RemSteps == RemStart \/ RemBundle \/ RemIcon \/ RemDesktop

NextSteps == AddSteps \/ SubExit \/ RemSteps \/ LaunchStep \/ ProcExit

\* The threads running the handlers keep being scheduled; nothing makes the
\* extraction subprocess or the launched process exit.
SpecSteps ==
    /\ InitSteps
    /\ [][NextSteps]_vars
    /\ WF_vars(AddSteps)
    /\ WF_vars(RemSteps)
    /\ WF_vars(LaunchStep)

\* both calls have returned
BothReturned == run.mode \in {"par", "seq"} /\ run.add = "done" /\ run.rem = "done"

\* a menu entry or an icon file of the id without a bundle file of the id
Orphaned(id) ==
    /\ BundleFilesOf(id, storage) = {}
    /\ HasMenuEntry(id, apps) \/ IconFilesOf(id, storage) # {}

\* C14 as stated, the half about calls that run one after the other:
\* outside the sandbox, when one add and one remove of the same id run one
\* after the other, they never end with a menu entry or an icon file of the
\* id and no bundle file of the id.
C14_SequentialNeverOrphans ==
    (BothReturned /\ run.mode = "seq" /\ ~sandboxed) => ~Orphaned(RaceId)

\* C14: outside the sandbox and with no filesystem operation failing, one
\* add and one remove of the same id that run one after the other never end
\* with a menu entry or an icon file of the id and no bundle file of the
\* id; interleaved they can (the witness).
C14_SequentialCleanNeverOrphans ==
    (BothReturned /\ run.mode = "seq" /\ ~sandboxed /\ clean) => ~Orphaned(RaceId)

\* C14 witness: outside the sandbox and with no filesystem operation
\* failing, an interleaved add and remove of the same id have both returned
\* success and left the menu entry and an icon file of the id without any
\* bundle file.
C14_Witness ==
    /\ BothReturned /\ run.mode = "par" /\ ~sandboxed /\ clean
    /\ run.ares = Ok /\ run.rres = Ok
    /\ BundleFilesOf(RaceId, storage) = {}
    /\ HasMenuEntry(RaceId, apps)
    /\ IconFilesOf(RaceId, storage) # {}

\* C18: the step in which launch returns success is the step that spawns
\* the process, which is then running and need never exit; add never
\* returns while the extraction subprocess is running, and once the
\* subprocess has exited add returns.
C18_LaunchDetachedAddWaits ==
    /\ [][(run.lau = "idle" /\ run'.lau = "done" /\ run'.lres = Ok)
            => (run.proc = "none" /\ run'.proc = "running")]_vars
    /\ [](run.mode # "none" /\ run.add = "done" => run.sub # "running")
    /\ ((run.mode # "none" /\ run.add = "wait" /\ Reaped(run.sub))
          ~> (run.add = "done"))

\* C18 witness: launch has returned success and its process is still
\* running, and add has returned after its extraction subprocess exited.
C18_Witness ==
    /\ run.mode # "none"
    /\ run.lau = "done" /\ run.lres = Ok /\ run.proc = "running"
    /\ run.add = "done" /\ Reaped(run.sub)

====
